---- MODULE Spec2Model ----
(***************************************************************************)
(* Model of the skincare-analysis API: the upload store                    *)
(* (app/services/image_service.py, app/utils/validators.py,                *)
(* app/routes/upload.py) and the mock analysis engine                      *)
(* (app/services/analysis_service.py).                                     *)
(*                                                                         *)
(* A file name is a sequence of one-character strings, a file's content a  *)
(* sequence of byte classes, a path in the upload directory the pair       *)
(* <<image_id, extension>>.                                                *)
(***************************************************************************)
EXTENDS Integers, Sequences, FiniteSets, TLC

VARIABLES files, issued, uploads, lastResolve, lastLookup, requests,
          gen, calls, now

storeVars == <<files, issued, uploads, lastResolve, lastLookup, requests>>
analysisVars == <<gen, calls, now>>
vars == <<files, issued, uploads, lastResolve, lastLookup, requests, gen, calls, now>>

(***************************************************************************)
(* Bounds                                                                  *)
(***************************************************************************)
\* number of save_image calls of one run
NumUploads == 2
\* number of save_image calls that run beside the observers of SpecObserved
NumObserved == 1
\* the configured MAX_FILE_SIZE (config.py reads it from the environment;
\* its default is 5 MiB), scaled down to a few bytes
MAX_FILE_SIZE == 2

\* number of /analyze requests of one run
NumRequests == 1

\* number of analyze_image calls of one run
NumCalls == 2
\* largest image width and height
MaxDim == 2

Uploads == 1..NumUploads
Calls == 1..NumCalls
ObservedUploads == 1..NumObserved
Requests == 1..NumRequests
\* stand-ins for the 16-hex-character identifiers
Ids == 1..NumUploads
NoId == 0
NoFile == "NoFile"
NotFound == "FileNotFoundError"
OsError == "OSError"

(***************************************************************************)
(* Configuration (app/config.py)                                           *)
(***************************************************************************)
ALLOWED_EXTENSIONS == { <<"j","p","g">>, <<"j","p","e","g">>, <<"p","n","g">> }
ALLOWED_MIME_TYPES == { "image/jpeg", "image/png" }

(***************************************************************************)
(* Inputs                                                                  *)
(***************************************************************************)
\* byte classes: "J" a JPEG signature, "P" a PNG signature, "T" a text byte
Fill(first, n) == [i \in 1..n |-> IF i = 1 THEN first ELSE "T"]

\* the upload candidates: a declared file name and the bytes sent under it
Candidate(filename, content) == [filename |-> filename, content |-> content]

Candidates ==
    { \* an upper-case suffix, a JPEG of exactly the maximum size
      Candidate(<<"a",".","J","P","G">>, Fill("J", MAX_FILE_SIZE)),
      \* a PNG sent under a .jpeg name
      Candidate(<<"a",".","j","p","e","g">>, <<"P">>),
      \* a mixed-case suffix after an inner dot, PNG bytes
      Candidate(<<"a",".","b",".","P","n","g">>, <<"P">>),
      \* text sent under a .png name
      Candidate(<<"a",".","b",".","P","n","g">>, <<"T">>),
      \* an empty upload
      Candidate(<<"a",".","j","p","e","g">>, <<>>),
      \* one byte more than the maximum
      Candidate(<<"a",".","J","P","G">>, Fill("J", MAX_FILE_SIZE + 1)),
      \* a suffix outside the allowed set on bytes that are too many as well,
      \* and no suffix
      Candidate(<<"a",".","j","p","g",".","t","x","t">>, Fill("J", MAX_FILE_SIZE + 1)),
      Candidate(<<"a">>, <<"J">>) }

Filenames == { c.filename : c \in Candidates }

(***************************************************************************)
(* str.lower, Path.suffix, str.lstrip('.')                                 *)
(***************************************************************************)
LowerChar(c) ==
    CASE c = "J" -> "j"
      [] c = "P" -> "p"
      [] c = "G" -> "g"
      [] c = "E" -> "e"
      [] c = "N" -> "n"
      [] OTHER -> c

Lower(s) == [i \in 1..Len(s) |-> LowerChar(s[i])]

\* name.rfind('.'), 1-based, 0 when there is no dot
RFindDot(name) ==
    LET dots == { i \in 1..Len(name) : name[i] = "." }
    IN IF dots = {} THEN 0 ELSE CHOOSE i \in dots : \A j \in dots : j <= i

\* pathlib's suffix: the last dot and what follows it, unless that dot is the
\* first or the last character of the name
Suffix(name) ==
    LET i == RFindDot(name)
    IN IF 1 < i /\ i < Len(name) THEN SubSeq(name, i, Len(name)) ELSE <<>>

RECURSIVE LStripDot(_)
LStripDot(s) ==
    IF s # <<>> /\ Head(s) = "." THEN LStripDot(Tail(s)) ELSE s

\* the extensions a file of the upload directory can carry: the probed
\* three, and the allowed suffixes in the case the candidates send them
AllExtensions ==
    { <<".">> \o e : e \in ALLOWED_EXTENSIONS }
        \cup { Suffix(f) : f \in { g \in Filenames :
                    LStripDot(Lower(Suffix(g))) \in ALLOWED_EXTENSIONS } }

Paths == Ids \X AllExtensions

(***************************************************************************)
(* app/utils/validators.py: each validator is TRUE when it returns and     *)
(* FALSE when it raises ValidationError                                    *)
(***************************************************************************)
validate_file_extension(filename) ==
    LStripDot(Lower(Suffix(filename))) \in ALLOWED_EXTENSIONS

\* the size check with >= in place of >
SizeCheckOffByOne(file_size) == ~(file_size >= MAX_FILE_SIZE)

validate_file_size(file_size) == ~(file_size > MAX_FILE_SIZE)

\* libmagic's verdict on a file's bytes
MimeOf(bytes) ==
    IF bytes = <<>> THEN "application/x-empty"
    ELSE IF Head(bytes) = "J" THEN "image/jpeg"
    ELSE IF Head(bytes) = "P" THEN "image/png"
    ELSE "text/plain"

\* store[path] = NoFile makes magic raise, which the function turns into a
\* ValidationError as well
validate_file_content(store, path) ==
    /\ store[path] # NoFile
    /\ MimeOf(store[path]) \in ALLOWED_MIME_TYPES

(***************************************************************************)
(* ImageService                                                            *)
(***************************************************************************)
\* an identifier source that may repeat a value
AnyImageIds(drawn) == Ids

\* the values str(uuid.uuid4()).replace('-', '')[:16] can take: an identifier
\* no earlier call has drawn
NewImageIds(drawn) == Ids \ drawn

\* the extension kept in the case the caller sent
ExtensionAsSent(filename) == Suffix(filename)

StoredExtension(filename) == Lower(Suffix(filename))

\* a path that leaves the identifier out of the file name
PathWithoutId(image_id, extension) == <<1, extension>>

FilePath(image_id, extension) == <<image_id, extension>>

ProbeOrder == << <<".","j","p","g">>, <<".","j","p","e","g">>, <<".","p","n","g">> >>

\* get_image_path: the first probed path that exists, or FileNotFoundError
get_image_path(store, image_id) ==
    LET hits == { i \in 1..Len(ProbeOrder) :
                    store[FilePath(image_id, ProbeOrder[i])] # NoFile }
    IN IF hits = {} THEN NotFound
       ELSE FilePath(image_id, ProbeOrder[CHOOSE i \in hits : \A j \in hits : i <= j])

\* the length of an identifier save_image draws: uuid4().hex[:16]
IdLength == 16

\* the longest file name the file system of the upload directory takes
NAME_MAX == 255

\* the strings a caller passes as image_id: the identifier id of the store,
\* or a string of n characters that is the name of no upload
IdString(id) == [length |-> IdLength, id |-> id]
OtherString(n) == [length |-> n, id |-> NoId]

OtherLengths == {0, 7, 8, NAME_MAX}

ImageIdStrings ==
    { IdString(id) : id \in Ids } \cup { OtherString(n) : n \in OtherLengths }

\* the two ways a call ends: with the path it returns, or with an error
NoPath == <<NoId, <<>> >>
Returned(path) == [raised |-> "none", path |-> path]
Raised(exc) == [raised |-> exc, path |-> NoPath]

\* get_image_path on a string: what it returns or raises. On a file name
\* longer than NAME_MAX os.stat fails with ENAMETOOLONG, which
\* Path.exists() raises as OSError (pathlib up to Python 3.13) or answers
\* with False (from 3.14)
GetImagePathOutcomes(store, image_id) ==
    IF image_id.length + Len(ProbeOrder[1]) > NAME_MAX
    THEN {Raised(OsError), Raised(NotFound)}
    ELSE IF image_id.id = NoId THEN {Raised(NotFound)}
    ELSE LET p == get_image_path(store, image_id.id)
         IN {IF p = NotFound THEN Raised(NotFound) ELSE Returned(p)}

\* image_exists after get_image_path ended with out: True when it returned,
\* False when it raised FileNotFoundError, and any other error passes the
\* except clause
image_exists(out) ==
    IF out.raised = NotFound THEN [result |-> FALSE, raised |-> "none"]
    ELSE IF out.raised # "none" THEN [result |-> FALSE, raised |-> out.raised]
    ELSE [result |-> TRUE, raised |-> "none"]

\* validate_image_id: TRUE when it returns, FALSE when it raises
\* ValidationError
validate_image_id(image_id) ==
    ~(image_id.length = 0 \/ image_id.length < 8)

\* the /analyze route's answer to the way its try block ended
AnalyzeResponseOf(outcome) ==
    CASE outcome = "ok" -> 200
      [] outcome = "ValidationError" -> 400
      [] outcome = NotFound -> 404
      [] OTHER -> 500

\* the upload route's answer to the way save_image ended
ResponseOf(outcome) ==
    CASE outcome = "ok" -> 200
      [] outcome = "ValidationError" -> 400
      [] OTHER -> 500

(***************************************************************************)
(* AnalysisService (app/services/analysis_service.py)                      *)
(***************************************************************************)
SKIN_TYPES == << "Normal", "Oily", "Dry", "Combination", "Sensitive" >>

ISSUES ==
    << "Hyperpigmentation", "Fine Lines", "Acne", "Dark Circles",
       "Redness", "Uneven Texture", "Large Pores", "Dryness" >>

RECOMMENDATIONS(issue) ==
    CASE issue = "Hyperpigmentation" -> "Use vitamin C serum for hyperpigmentation"
      [] issue = "Fine Lines" -> "Apply retinol for fine lines"
      [] issue = "Acne" -> "Consider salicylic acid for acne treatment"
      [] issue = "Dark Circles" -> "Use caffeine-based eye cream for dark circles"
      [] issue = "Redness" -> "Apply soothing niacinamide for redness"
      [] issue = "Uneven Texture" -> "Use AHA/BHA exfoliant for texture improvement"
      [] issue = "Large Pores" -> "Try niacinamide to minimize pore appearance"
      [] issue = "Dryness" -> "Apply hyaluronic acid serum for hydration"

\* the code points of a label, which is what list.sort() compares
CodePoints(label) ==
    CASE label = "Hyperpigmentation" ->
            <<72, 121, 112, 101, 114, 112, 105, 103, 109, 101, 110, 116, 97, 116, 105, 111, 110>>
      [] label = "Fine Lines" -> <<70, 105, 110, 101, 32, 76, 105, 110, 101, 115>>
      [] label = "Acne" -> <<65, 99, 110, 101>>
      [] label = "Dark Circles" -> <<68, 97, 114, 107, 32, 67, 105, 114, 99, 108, 101, 115>>
      [] label = "Redness" -> <<82, 101, 100, 110, 101, 115, 115>>
      [] label = "Uneven Texture" ->
            <<85, 110, 101, 118, 101, 110, 32, 84, 101, 120, 116, 117, 114, 101>>
      [] label = "Large Pores" -> <<76, 97, 114, 103, 101, 32, 80, 111, 114, 101, 115>>
      [] label = "Dryness" -> <<68, 114, 121, 110, 101, 115, 115>>

\* s < t for two sequences of code points
RECURSIVE CodesLess(_, _)
CodesLess(s, t) ==
    IF t = <<>> THEN FALSE
    ELSE IF s = <<>> THEN TRUE
    ELSE IF Head(s) # Head(t) THEN Head(s) < Head(t)
    ELSE CodesLess(Tail(s), Tail(t))

StrLess(a, b) == CodesLess(CodePoints(a), CodePoints(b))

\* x put into the sorted sequence seq, after the elements equal to it
RECURSIVE InsertSorted(_, _)
InsertSorted(x, seq) ==
    IF seq = <<>> THEN <<x>>
    ELSE IF StrLess(x, Head(seq)) THEN <<x>> \o seq
    ELSE <<Head(seq)>> \o InsertSorted(x, Tail(seq))

\* list.sort() on labels
RECURSIVE SortLabels(_)
SortLabels(seq) ==
    IF seq = <<>> THEN <<>>
    ELSE InsertSorted(seq[Len(seq)], SortLabels(SubSeq(seq, 1, Len(seq) - 1)))

\* random.Random: a generator is a state; seeding fixes it, every draw
\* advances it. The Mersenne Twister is represented by a 64-state
\* congruential generator of the same interface.
Seeded(seed) == (seed * 13 + 7) % 64

\* _randbelow(n): a value in 0..n-1 and the generator's next state
RandBelow(state, n) ==
    [value |-> (state \div 4) % n, state |-> (state * 5 + 1) % 64]

\* the state of a generator nothing has seeded yet
UnseededState == 0

\* what Image.open raises on a path it cannot open: no file at the path
\* (the file was deleted after it was resolved), or bytes that are no image
OpenErrors == {"FileNotFoundError", "UnidentifiedImageError"}

\* an error raised by a later statement of the try block
StepErrors == {"MemoryError"}

\* the image at the path analyze_image is given: one Image.open reads, with
\* its dimensions, or one Image.open fails on, with the error it raises
Images ==
    { [readable |-> TRUE, width |-> w, height |-> h, error |-> "none"] :
        w \in 1..MaxDim, h \in 1..MaxDim }
    \cup { [readable |-> FALSE, width |-> 0, height |-> 0, error |-> e] :
             e \in OpenErrors }

\* generator 0 is the module-level generator of random, generator a the
\* object rng of call a
Generators == 0..NumCalls

\* every call drawing from the module-level generator
ModuleRandom(a) == 0

\* the generator call a draws from: rng = random.Random(seed)
RngOf(a) == a

\* the number of issues without the leading 1
NumIssuesFromZero(seed) == seed % 3

NumIssues(seed) == 1 + (seed % 3)

\* confidence in hundredths: 0.75 + (seed % 20) / 100, rounded to 2 places
Confidence(seed) == 75 + (seed % 20)

NoReport == [image_id |-> NoId]

Report(image_id, skin_type, issues, confidence, at) ==
    [ image_id |-> image_id, skin_type |-> skin_type, issues |-> issues,
      confidence |-> confidence,
      recommendations |-> [i \in 1..Len(issues) |-> RECOMMENDATIONS(issues[i])],
      analyzed_at |-> at ]

IdleCall ==
    [ pc |-> "idle", image_id |-> NoId,
      image |-> [readable |-> FALSE, width |-> 0, height |-> 0, error |-> "none"],
      seed |-> 0, skin_type |-> "", num_issues |-> 0, i |-> 0,
      pool |-> <<>>, result |-> <<>>, draws |-> 0, report |-> NoReport,
      caught |-> "none", outcome |-> "none" ]

\* a handler that catches the errors of the file system only
CaughtOnlyOSError(exc) == exc = "FileNotFoundError"

\* except Exception: every error a statement of the try block raises is
\* an instance of Exception
Caught(exc) == exc \in OpenErrors \cup StepErrors

\* lines 83-100 for a call c whose try block raised exc: the fallback
\* values and the report built from them, or the error leaving the call
Fallback(c, exc, at) ==
    IF Caught(exc)
    THEN [c EXCEPT !.pc = "done", !.caught = exc, !.outcome = "returned",
                   !.skin_type = "Combination",
                   !.result = <<"Hyperpigmentation">>,
                   !.report = Report(c.image_id, "Combination",
                                     <<"Hyperpigmentation">>, 85, at)]
    ELSE [c EXCEPT !.pc = "done", !.outcome = "raised"]

NoLookup ==
    [ op |-> "none", image_id |-> OtherString(0), path |-> NoPath,
      result |-> FALSE, raised |-> "none" ]

\* steps: the calls the route has made and got an answer from, in order
IdleRequest ==
    [ pc |-> "idle", image_id |-> OtherString(0), steps |-> <<>>,
      path |-> NoPath, response |-> 0 ]

IdleUpload ==
    [ pc |-> "idle", filename |-> <<>>, content |-> <<>>, image_id |-> NoId,
      extension |-> <<>>, written |-> 0, caught |-> "none",
      unlink_failed |-> FALSE, outcome |-> "none", message |-> "none",
      response |-> 0 ]

Init ==
    /\ files = [p \in Paths |-> NoFile]
    /\ issued = {}
    /\ uploads = [u \in Uploads |-> IdleUpload]
    /\ lastResolve = [image_id |-> NoId, path |-> NotFound, data |-> NoFile]
    /\ lastLookup = NoLookup
    /\ requests = [r \in Requests |-> IdleRequest]
    /\ gen = [g \in Generators |-> UnseededState]
    /\ calls = [a \in Calls |-> IdleCall]
    /\ now = 0

Finished(rec, outcome, message) ==
    [rec EXCEPT !.pc = "done", !.outcome = outcome, !.message = message,
                !.response = ResponseOf(outcome)]

\* save_image, lines 34-49: the two cheap checks, then the identifier and the path
SaveImage_Begin(u, filename, content) ==
    /\ uploads[u].pc = "idle"
    /\ LET rec == [uploads[u] EXCEPT !.filename = filename, !.content = content]
       IN IF ~validate_file_extension(filename)
          THEN /\ uploads' = [uploads EXCEPT ![u] =
                                Finished(rec, "ValidationError", "Invalid file type")]
               /\ UNCHANGED <<files, issued>>
          ELSE IF ~validate_file_size(Len(content))
          THEN /\ uploads' = [uploads EXCEPT ![u] =
                                Finished(rec, "ValidationError", "File too large")]
               /\ UNCHANGED <<files, issued>>
          ELSE \E id \in NewImageIds(issued) :
                 /\ issued' = issued \cup {id}
                 /\ uploads' = [uploads EXCEPT ![u] =
                        [rec EXCEPT !.pc = "open", !.image_id = id,
                                    !.extension = StoredExtension(filename)]]
                 /\ UNCHANGED files
    /\ UNCHANGED <<lastResolve, lastLookup, requests, analysisVars>>

PathOf(rec) == FilePath(rec.image_id, rec.extension)

\* line 52, open(file_path, 'wb'): creates or truncates the file
SaveImage_Open(u) ==
    /\ uploads[u].pc = "open"
    /\ files' = [files EXCEPT ![PathOf(uploads[u])] = <<>>]
    /\ uploads' = [uploads EXCEPT ![u].pc = "write"]
    /\ UNCHANGED <<issued, lastResolve, lastLookup, requests, analysisVars>>

\* line 52 raising OSError: nothing is created
SaveImage_OpenFails(u) ==
    /\ uploads[u].pc = "open"
    /\ uploads' = [uploads EXCEPT ![u].pc = "cleanup", ![u].caught = "Exception"]
    /\ UNCHANGED <<files, issued, lastResolve, lastLookup, requests, analysisVars>>

\* line 53, buffer.write(content): the bytes reach the file k at a time
SaveImage_Write(u, k) ==
    /\ uploads[u].pc = "write"
    /\ k >= 1
    /\ uploads[u].written + k <= Len(uploads[u].content)
    /\ files' = [files EXCEPT ![PathOf(uploads[u])] =
                    SubSeq(uploads[u].content, 1, uploads[u].written + k)]
    /\ uploads' = [uploads EXCEPT ![u].written = @ + k]
    /\ UNCHANGED <<issued, lastResolve, lastLookup, requests, analysisVars>>

\* write or close raising OSError: what was written stays in the file
SaveImage_WriteFails(u) ==
    /\ uploads[u].pc = "write"
    /\ uploads' = [uploads EXCEPT ![u].pc = "cleanup", ![u].caught = "Exception"]
    /\ UNCHANGED <<files, issued, lastResolve, lastLookup, requests, analysisVars>>

\* the end of the with block once every byte is written, line 55,
\* validate_file_content(file_path), and the return of lines 67-72
SaveImage_Validate(u) ==
    /\ uploads[u].pc = "write"
    /\ uploads[u].written = Len(uploads[u].content)
    /\ IF validate_file_content(files, PathOf(uploads[u]))
       THEN uploads' = [uploads EXCEPT ![u] = Finished(@, "ok", "none")]
       ELSE uploads' = [uploads EXCEPT ![u].pc = "cleanup",
                                       ![u].caught = "ValidationError"]
    /\ UNCHANGED <<files, issued, lastResolve, lastLookup, requests, analysisVars>>

\* what the handler raises once its unlink has returned
Reraised(caught) ==
    IF caught = "ValidationError"
    THEN [outcome |-> "ValidationError", message |-> "Error validating file content"]
    ELSE [outcome |-> "ValidationError", message |-> "Error saving file"]

\* a handler that raises without removing the file
NotUnlinked(store, path) == store

\* the store after the handler's "if file_path.exists(): file_path.unlink()"
Unlinked(store, path) == [store EXCEPT ![path] = NoFile]

\* lines 57-60 and 61-64: remove the file if it exists, then raise
SaveImage_Cleanup(u) ==
    /\ uploads[u].pc = "cleanup"
    /\ files' = Unlinked(files, PathOf(uploads[u]))
    /\ LET r == Reraised(uploads[u].caught)
       IN uploads' = [uploads EXCEPT ![u] = Finished(@, r.outcome, r.message)]
    /\ UNCHANGED <<issued, lastResolve, lastLookup, requests, analysisVars>>

\* lines 59 and 63, unlink raising OSError inside the handler: the file stays
\* and the OSError is what leaves save_image
SaveImage_UnlinkFails(u) ==
    /\ uploads[u].pc = "cleanup"
    /\ files[PathOf(uploads[u])] # NoFile
    /\ uploads' = [uploads EXCEPT ![u] =
            Finished([@ EXCEPT !.unlink_failed = TRUE], "OSError", "unlink")]
    /\ UNCHANGED <<files, issued, lastResolve, lastLookup, requests, analysisVars>>

SaveImage(u) ==
    \/ \E c \in Candidates : SaveImage_Begin(u, c.filename, c.content)
    \/ SaveImage_Open(u)
    \/ SaveImage_OpenFails(u)
    \/ \E k \in 1..(MAX_FILE_SIZE + 1) : SaveImage_Write(u, k)
    \/ SaveImage_WriteFails(u)
    \/ SaveImage_Validate(u)
    \/ SaveImage_Cleanup(u)
    \/ SaveImage_UnlinkFails(u)

\* a caller of get_image_path, who then reads the file at the path it got
Resolve(image_id) ==
    /\ LET p == get_image_path(files, image_id)
       IN lastResolve' = [image_id |-> image_id, path |-> p,
                          data |-> IF p = NotFound THEN NoFile ELSE files[p]]
    /\ UNCHANGED <<files, issued, uploads, lastLookup, requests, analysisVars>>

Next == \E u \in Uploads : SaveImage(u)

Spec == Init /\ [][Next]_vars

NextObserved ==
    \/ \E u \in ObservedUploads : SaveImage(u)
    \/ \E id \in Ids : Resolve(id)

SpecObserved == Init /\ [][NextObserved]_vars

(***************************************************************************)
(* The lookups on any upload directory                                     *)
(***************************************************************************)
\* the states an upload directory can be in: any set of the paths holds a
\* file (uploads leave one file per identifier; files copied in or removed
\* from outside give the rest)
Directories == [Paths -> {NoFile, <<"J">>}]

InitLookup ==
    /\ files \in Directories
    /\ issued = {}
    /\ uploads = [u \in Uploads |-> IdleUpload]
    /\ lastResolve = [image_id |-> NoId, path |-> NotFound, data |-> NoFile]
    /\ lastLookup = NoLookup
    /\ requests = [r \in Requests |-> IdleRequest]
    /\ gen = [g \in Generators |-> UnseededState]
    /\ calls = [a \in Calls |-> IdleCall]
    /\ now = 0

\* a caller of get_image_path
GetImagePath(image_id) ==
    /\ \E out \in GetImagePathOutcomes(files, image_id) :
          lastLookup' = [ op |-> "get_image_path", image_id |-> image_id,
                          path |-> out.path, result |-> FALSE,
                          raised |-> out.raised ]
    /\ UNCHANGED <<files, issued, uploads, lastResolve, requests, analysisVars>>

\* a caller of image_exists
ImageExists(image_id) ==
    /\ \E out \in GetImagePathOutcomes(files, image_id) :
          lastLookup' = [ op |-> "image_exists", image_id |-> image_id,
                          path |-> NoPath, result |-> image_exists(out).result,
                          raised |-> image_exists(out).raised ]
    /\ UNCHANGED <<files, issued, uploads, lastResolve, requests, analysisVars>>

NextLookup ==
    \/ \E image_id \in ImageIdStrings : GetImagePath(image_id)
    \/ \E image_id \in ImageIdStrings : ImageExists(image_id)

SpecLookup == InitLookup /\ [][NextLookup]_vars

(***************************************************************************)
(* analyze_image                                                           *)
(***************************************************************************)
\* lines 55-63 and, when the image cannot be opened, lines 82-100: call a
\* analyses the image stored under identifier image_id
Analyze_Open(a, image_id, image) ==
    /\ calls[a].pc = "idle"
    /\ IF image.readable
       THEN LET seed == image.width + image.height
            IN /\ gen' = [gen EXCEPT ![0] = Seeded(seed), ![RngOf(a)] = Seeded(seed)]
               /\ calls' = [calls EXCEPT ![a] =
                    [@ EXCEPT !.pc = "choice", !.image_id = image_id,
                              !.image = image, !.seed = seed]]
               /\ UNCHANGED now
       ELSE /\ calls' = [calls EXCEPT ![a] =
                    Fallback([calls[a] EXCEPT !.image_id = image_id, !.image = image],
                             image.error, now + 1)]
            /\ now' = IF Caught(image.error) THEN now + 1 ELSE now
            /\ UNCHANGED gen
    /\ UNCHANGED storeVars

\* lines 65-68: skin_type = rng.choice(SKIN_TYPES), num_issues, and the
\* start of rng.sample(ISSUES, num_issues)
Analyze_Choice(a) ==
    /\ calls[a].pc = "choice"
    /\ LET d == RandBelow(gen[RngOf(a)], Len(SKIN_TYPES))
       IN /\ gen' = [gen EXCEPT ![RngOf(a)] = d.state]
          /\ calls' = [calls EXCEPT ![a] =
                [@ EXCEPT !.pc = "sample", !.skin_type = SKIN_TYPES[d.value + 1],
                          !.num_issues = NumIssues(calls[a].seed), !.i = 0,
                          !.pool = ISSUES, !.draws = 1]]
    /\ UNCHANGED <<now, storeVars>>

\* one round of the loop of random.sample: j = randbelow(n - i);
\* result[i] = pool[j]; pool[j] = pool[n - i - 1]
Analyze_SampleStep(a) ==
    /\ calls[a].pc = "sample"
    /\ calls[a].i < calls[a].num_issues
    /\ LET c == calls[a]
           n == Len(ISSUES)
           d == RandBelow(gen[RngOf(a)], n - c.i)
       IN /\ gen' = [gen EXCEPT ![RngOf(a)] = d.state]
          /\ calls' = [calls EXCEPT ![a] =
                [c EXCEPT !.result = Append(c.result, c.pool[d.value + 1]),
                          !.pool = [c.pool EXCEPT ![d.value + 1] = c.pool[n - c.i]],
                          !.i = c.i + 1, !.draws = c.draws + 1]]
    /\ UNCHANGED <<now, storeVars>>

\* lines 73-100: issues.sort(), confidence, recommendations and the report
Analyze_Finish(a) ==
    /\ calls[a].pc = "sample"
    /\ calls[a].i = calls[a].num_issues
    /\ LET c == calls[a]
           issues == SortLabels(c.result)
       IN calls' = [calls EXCEPT ![a] =
                [c EXCEPT !.pc = "done", !.result = issues, !.outcome = "returned",
                          !.report = Report(c.image_id, c.skin_type, issues,
                                            Confidence(c.seed), now + 1)]]
    /\ now' = now + 1
    /\ UNCHANGED <<gen, storeVars>>

AnalyzeImage(a) ==
    \/ \E image \in Images : Analyze_Open(a, a, image)
    \/ Analyze_Choice(a)
    \/ Analyze_SampleStep(a)
    \/ Analyze_Finish(a)

NextAnalysis == \E a \in Calls : AnalyzeImage(a)

SpecAnalysis == Init /\ [][NextAnalysis]_vars

\* a statement of the try block after Image.open raises exc: the values
\* drawn so far are dropped for the fallback ones
Analyze_Raise(a, exc) ==
    /\ calls[a].pc \in {"choice", "sample"}
    /\ calls' = [calls EXCEPT ![a] = Fallback(calls[a], exc, now + 1)]
    /\ now' = IF Caught(exc) THEN now + 1 ELSE now
    /\ UNCHANGED <<gen, storeVars>>

NextAnalysisFaults ==
    \/ \E a \in Calls : AnalyzeImage(a)
    \/ \E a \in Calls, exc \in StepErrors : Analyze_Raise(a, exc)

SpecAnalysisFaults == Init /\ [][NextAnalysisFaults]_vars

(***************************************************************************)
(* The /analyze route (app/routes/analysis.py)                             *)
(***************************************************************************)
\* the upload directories uploads leave behind: for every identifier no
\* file, or one file under one of the stored extensions
UploadDirectories ==
    { d \in Directories :
        \A p \in Paths : d[p] # NoFile =>
            /\ \E i \in 1..Len(ProbeOrder) : p[2] = ProbeOrder[i]
            /\ \A q \in Paths : (q[1] = p[1] /\ d[q] # NoFile) => q = p }

InitRoute ==
    /\ files \in UploadDirectories
    /\ issued = {}
    /\ uploads = [u \in Uploads |-> IdleUpload]
    /\ lastResolve = [image_id |-> NoId, path |-> NotFound, data |-> NoFile]
    /\ lastLookup = NoLookup
    /\ requests = [r \in Requests |-> IdleRequest]
    /\ gen = [g \in Generators |-> UnseededState]
    /\ calls = [a \in Calls |-> IdleCall]
    /\ now = 0

\* the end of the route: the response of the try block's outcome
Answered(req, outcome) ==
    [req EXCEPT !.pc = "done", !.response = AnalyzeResponseOf(outcome)]

\* line 80: validate_image_id(request.image_id), and the handler of the
\* ValidationError it raises
Route_Validate(r, image_id) ==
    /\ requests[r].pc = "idle"
    /\ LET req == [requests[r] EXCEPT !.image_id = image_id,
                                      !.steps = <<"validate_image_id">>]
       IN requests' = [requests EXCEPT ![r] =
             IF validate_image_id(image_id)
             THEN [req EXCEPT !.pc = "resolve"]
             ELSE Answered(req, "ValidationError")]
    /\ UNCHANGED <<files, issued, uploads, lastResolve, lastLookup, analysisVars>>

\* lines 83-90: get_image_path; FileNotFoundError becomes the
\* HTTPException 404 the handler of HTTPException passes on, any other
\* error reaches except Exception
Route_Resolve(r) ==
    /\ requests[r].pc = "resolve"
    /\ \E out \in GetImagePathOutcomes(files, requests[r].image_id) :
          LET req == [requests[r] EXCEPT !.steps = Append(@, "get_image_path")]
          IN requests' = [requests EXCEPT ![r] =
                IF out.raised # "none"
                THEN Answered(req, out.raised)
                ELSE [req EXCEPT !.pc = "analyze", !.path = out.path]]
    /\ UNCHANGED <<files, issued, uploads, lastResolve, lastLookup, analysisVars>>

\* line 93: AnalysisService.analyze_image(image_path), as call r of the
\* analysis; the image is what Image.open makes of the file at the path
Route_Analyze(r) ==
    /\ requests[r].pc = "analyze"
    /\ \/ \E image \in Images : Analyze_Open(r, requests[r].path[1], image)
       \/ Analyze_Choice(r)
       \/ Analyze_SampleStep(r)
       \/ Analyze_Finish(r)

\* lines 95-96 and 104-112: the report is returned, or an error of
\* analyze_image reaches except Exception
Route_Return(r) ==
    /\ requests[r].pc = "analyze"
    /\ calls[r].pc = "done"
    /\ requests' = [requests EXCEPT ![r] =
          Answered([@ EXCEPT !.steps = Append(@, "analyze_image")],
                   IF calls[r].outcome = "returned" THEN "ok" ELSE calls[r].outcome)]
    /\ UNCHANGED <<files, issued, uploads, lastResolve, lastLookup, analysisVars>>

AnalyzeRoute(r) ==
    \/ \E image_id \in ImageIdStrings : Route_Validate(r, image_id)
    \/ Route_Resolve(r)
    \/ Route_Analyze(r)
    \/ Route_Return(r)

NextRoute == \E r \in Requests : AnalyzeRoute(r)

SpecRoute == InitRoute /\ [][NextRoute]_vars

(***************************************************************************)
(* Properties                                                              *)
(***************************************************************************)
Done(u) == uploads[u].pc = "done"

AllReturned == \A u \in Uploads : Done(u)

\* save_image of u ended with the ValidationError of content sniffing
SniffRejected(u) ==
    /\ Done(u)
    /\ uploads[u].caught = "ValidationError"
    /\ uploads[u].outcome = "ValidationError"

IsPrefix(s, t) == Len(s) <= Len(t) /\ s = SubSeq(t, 1, Len(s))

\* C1: an upload that returned the ValidationError of content sniffing has no
\* file at its path and get_image_path on its identifier raises
\* FileNotFoundError; once every upload has returned, the store holds no
\* file whose content sniffing failed.
C1_NoFileThatFailedSniffing ==
    /\ \A u \in Uploads :
         SniffRejected(u) =>
            /\ files[PathOf(uploads[u])] = NoFile
            /\ get_image_path(files, uploads[u].image_id) = NotFound
    /\ AllReturned =>
         \A u \in Uploads :
            uploads[u].caught = "ValidationError" => files[PathOf(uploads[u])] = NoFile

\* C2: after save_image succeeded, get_image_path on the returned image_id
\* returns the path <image_id><lower-cased suffix>, one of the probed three,
\* and the file there holds exactly the candidate's bytes, whatever the
\* other uploads have done since.
C2_ResolveReturnsUploadedBytes ==
    \A u \in Uploads :
        (Done(u) /\ uploads[u].outcome = "ok") =>
            LET p == get_image_path(files, uploads[u].image_id)
            IN /\ p # NotFound
               /\ p = <<uploads[u].image_id, Lower(Suffix(uploads[u].filename))>>
               /\ \E i \in 1..Len(ProbeOrder) : p[2] = ProbeOrder[i]
               /\ files[p] = uploads[u].content

\* a successful upload whose suffix was sent in upper or mixed case, beside
\* another upload that stored a file too
C2_Witness ==
    \E u, v \in Uploads :
        /\ u # v
        /\ Done(u) /\ uploads[u].outcome = "ok"
        /\ Suffix(uploads[u].filename) # Lower(Suffix(uploads[u].filename))
        /\ Done(v) /\ uploads[v].image_id # NoId
        /\ files[PathOf(uploads[v])] # NoFile

\* C3: when content validation fails and the unlink of the written file
\* fails too, save_image still ends with the ValidationError and the route
\* answers 400.
C3_DeletionFailureSwallowed ==
    \A u \in Uploads :
        (Done(u) /\ uploads[u].caught = "ValidationError" /\ uploads[u].unlink_failed) =>
            /\ uploads[u].outcome = "ValidationError"
            /\ uploads[u].response = 400

\* C4: no get_image_path returns a path whose file holds a strict prefix
\* (the empty file included) of the bytes of the upload that writes it.
C4_NoPartialFileObserved ==
    lastResolve.path # NotFound =>
        ~ \E u \in Uploads :
            /\ uploads[u].image_id # NoId
            /\ PathOf(uploads[u]) = lastResolve.path
            /\ IsPrefix(lastResolve.data, uploads[u].content)
            /\ lastResolve.data # uploads[u].content

\* C5: at most one file exists per identifier, no two save_image calls drew
\* the same identifier, and a stored image holds the bytes of the one upload
\* that drew its identifier.
C5_OneFilePerIdentifier ==
    /\ \A id \in Ids :
         Cardinality({ e \in AllExtensions : files[<<id, e>>] # NoFile }) <= 1
    /\ \A u, v \in Uploads :
         (u # v /\ uploads[u].image_id # NoId) =>
            uploads[u].image_id # uploads[v].image_id
    /\ \A u \in Uploads :
         (Done(u) /\ uploads[u].outcome = "ok") =>
            files[PathOf(uploads[u])] = uploads[u].content

\* two uploads hold one identifier and one stored file each
C5_Witness ==
    \E u, v \in Uploads :
        /\ u # v
        /\ uploads[u].image_id # NoId /\ uploads[v].image_id # NoId
        /\ files[PathOf(uploads[u])] # NoFile
        /\ files[PathOf(uploads[v])] # NoFile

\* C6: an I/O error while the file is opened or written ends save_image with
\* the ValidationError "Error saving file" and leaves no file at the
\* destination path.
C6_IOErrorLeavesNoFile ==
    \A u \in Uploads :
        (Done(u) /\ uploads[u].caught = "Exception") =>
            /\ uploads[u].outcome = "ValidationError"
            /\ uploads[u].message = "Error saving file"
            /\ files[PathOf(uploads[u])] = NoFile

AllowedSuffixes == { <<".","j","p","g">>, <<".","j","p","e","g">>, <<".","p","n","g">> }

\* C7: save_image rejects before writing exactly when the lower-cased suffix
\* is none of .jpg, .jpeg, .png or the content is longer than the maximum;
\* such a rejection draws no identifier and leaves the files unchanged.
C7_CheapChecksBeforeAnyWrite ==
    [][ \A u \in Uploads :
          (uploads[u].pc = "idle" /\ uploads'[u].pc # "idle") =>
             LET r == uploads'[u]
                 reject == \/ Lower(Suffix(r.filename)) \notin AllowedSuffixes
                           \/ Len(r.content) > MAX_FILE_SIZE
             IN /\ reject <=> (r.pc = "done" /\ r.outcome = "ValidationError")
                /\ reject => /\ files' = files
                             /\ issued' = issued
                             /\ r.image_id = NoId
                             /\ r.written = 0
                /\ ~reject => r.image_id # NoId /\ r.pc = "open"
      ]_vars

\* one upload rejected for being one byte too long, one of exactly the
\* maximum size that passed both checks
C7_Witness ==
    \E u, v \in Uploads :
        /\ Done(u) /\ uploads[u].message = "File too large"
        /\ Len(uploads[u].content) = MAX_FILE_SIZE + 1
        /\ uploads[v].image_id # NoId
        /\ Len(uploads[v].content) = MAX_FILE_SIZE

\* what upload u alone decides about its outcome
ExpectedOk(u) ==
    /\ Lower(Suffix(uploads[u].filename)) \in AllowedSuffixes
    /\ Len(uploads[u].content) <= MAX_FILE_SIZE
    /\ MimeOf(uploads[u].content) \in ALLOWED_MIME_TYPES
    /\ uploads[u].caught = "none"

\* C8: under every interleaving each file holds exactly what the one upload
\* of its identifier has written, no upload's file is removed under it, and
\* every upload ends as it would have ended alone.
C8_UploadsDoNotInterfere ==
    /\ \A p \in Paths :
         files[p] # NoFile =>
            \E u \in Uploads :
               /\ uploads[u].image_id # NoId
               /\ PathOf(uploads[u]) = p
               /\ files[p] = SubSeq(uploads[u].content, 1, uploads[u].written)
               /\ \A v \in Uploads : (v # u /\ uploads[v].image_id # NoId)
                                        => PathOf(uploads[v]) # p
    /\ \A u \in Uploads :
         /\ uploads[u].pc = "write" => files[PathOf(uploads[u])] # NoFile
         /\ Done(u) =>
              /\ (uploads[u].outcome = "ok") <=> ExpectedOk(u)
              /\ uploads[u].outcome = "ok" => files[PathOf(uploads[u])] = uploads[u].content
              /\ (uploads[u].outcome = "ValidationError" /\ uploads[u].image_id # NoId)
                    => files[PathOf(uploads[u])] = NoFile

\* one upload succeeded and one was rolled back after both had their files
\* in the store
C8_Witness ==
    \E u, v \in Uploads :
        /\ Done(u) /\ uploads[u].outcome = "ok"
        /\ SniffRejected(v)
        /\ files[PathOf(uploads[u])] = uploads[u].content

ReadableDone(a) == calls[a].pc = "done" /\ calls[a].image.readable

\* C9: two finished calls on readable images with equal width + height
\* return the same skin_type, issues, confidence and recommendations.
C9_DeterministicInSeed ==
    \A a, b \in Calls :
        ( /\ ReadableDone(a) /\ ReadableDone(b)
          /\ calls[a].image.width + calls[a].image.height
                = calls[b].image.width + calls[b].image.height ) =>
            /\ calls[a].report.skin_type = calls[b].report.skin_type
            /\ calls[a].report.issues = calls[b].report.issues
            /\ calls[a].report.confidence = calls[b].report.confidence
            /\ calls[a].report.recommendations = calls[b].report.recommendations

\* two finished calls on images of different shape and equal width + height
C9_Witness ==
    \E a, b \in Calls :
        /\ ReadableDone(a) /\ ReadableDone(b)
        /\ calls[a].image # calls[b].image
        /\ calls[a].seed = calls[b].seed
        /\ calls[a].report.analyzed_at # calls[b].report.analyzed_at
        /\ calls[a].report.image_id # calls[b].report.image_id

LexicographicOrder ==
    << "Acne", "Dark Circles", "Dryness", "Fine Lines", "Hyperpigmentation",
       "Large Pores", "Redness", "Uneven Texture" >>

RankOf(label) == CHOOSE i \in 1..Len(LexicographicOrder) : LexicographicOrder[i] = label

\* C10: a call on a readable image makes one draw for the skin type and then
\* one per issue, never more: in the sampling loop the round counter i never
\* passes num_issues, so a round (i < num_issues) or the return
\* (i = num_issues) is always the next step. It returns exactly
\* 1 + (seed mod 3) distinct issues of the enumeration in lexicographic order.
C10_IssuesSampledAndSorted ==
    \A a \in Calls :
        /\ calls[a].draws <= 1 + 3
        /\ calls[a].pc = "choice" => calls[a].result = <<>> /\ calls[a].draws = 0
        /\ calls[a].pc = "sample" =>
              /\ calls[a].num_issues = 1 + (calls[a].seed % 3)
              /\ calls[a].i <= calls[a].num_issues
              /\ calls[a].draws = 1 + calls[a].i
              /\ Len(calls[a].result) = calls[a].i
        /\ ReadableDone(a) =>
             LET issues == calls[a].report.issues
                 seed == calls[a].image.width + calls[a].image.height
             IN /\ Len(issues) = 1 + (seed % 3)
                /\ calls[a].draws = 1 + Len(issues)
                /\ \A i \in 1..Len(issues) : \E j \in 1..Len(ISSUES) : issues[i] = ISSUES[j]
                /\ \A i, j \in 1..Len(issues) :
                      i < j => RankOf(issues[i]) < RankOf(issues[j])

\* a finished call that returned three issues
C10_Witness ==
    \E a \in Calls : ReadableDone(a) /\ Len(calls[a].report.issues) = 3

\* C11: analyze_image never raises: a call whose image cannot be opened,
\* or whose later steps raise an error, returns the report with skin type
\* "Combination", the one issue "Hyperpigmentation", confidence 0.85 and
\* the one recommendation for hyperpigmentation
C11_FallbackInsteadOfError ==
    \A a \in Calls :
        calls[a].pc = "done" =>
            /\ calls[a].outcome = "returned"
            /\ calls[a].report # NoReport
            /\ (~calls[a].image.readable \/ calls[a].caught # "none") =>
                  /\ calls[a].report.image_id = calls[a].image_id
                  /\ calls[a].report.skin_type = "Combination"
                  /\ calls[a].report.issues = <<"Hyperpigmentation">>
                  /\ calls[a].report.confidence = 85
                  /\ calls[a].report.recommendations =
                        <<"Use vitamin C serum for hyperpigmentation">>

\* one call ended on an image that is no image, another on an error raised
\* after the sampling had begun
C11_Witness ==
    \E a, b \in Calls :
        /\ calls[a].pc = "done" /\ calls[a].image.error = "UnidentifiedImageError"
        /\ calls[b].pc = "done" /\ calls[b].image.readable
        /\ calls[b].caught = "MemoryError" /\ calls[b].draws > 1

\* a file of the string image_id under extension ext exists in the upload
\* directory
ExistsUnder(image_id, ext) ==
    image_id.id # NoId /\ files[<<image_id.id, ext>>] # NoFile

\* C12: get_image_path returns the path of the identifier under the first
\* of .jpg, .jpeg, .png at which a file exists and raises FileNotFoundError
\* exactly when none exists; image_exists returns true exactly when
\* get_image_path succeeds, false otherwise, and raises nothing; neither
\* changes the upload directory
C12_LookupFirstExistingExtension ==
    /\ [](lastLookup.op = "get_image_path" =>
            LET id == lastLookup.image_id
            IN [raised |-> lastLookup.raised, path |-> lastLookup.path] =
                 IF ExistsUnder(id, <<".","j","p","g">>)
                 THEN Returned(<<id.id, <<".","j","p","g">> >>)
                 ELSE IF ExistsUnder(id, <<".","j","p","e","g">>)
                 THEN Returned(<<id.id, <<".","j","p","e","g">> >>)
                 ELSE IF ExistsUnder(id, <<".","p","n","g">>)
                 THEN Returned(<<id.id, <<".","p","n","g">> >>)
                 ELSE Raised(NotFound))
    /\ [](lastLookup.op = "image_exists" =>
            /\ lastLookup.raised = "none"
            /\ lastLookup.result =
                 (\E i \in 1..Len(ProbeOrder) :
                     ExistsUnder(lastLookup.image_id, ProbeOrder[i])))
    /\ [][files' = files]_vars

\* C13: no operation changes in-memory state shared between calls: the
\* state of the module-level generator of random, the one process-wide
\* variable an operation touches, is the same after every step of
\* analyze_image as before it
C13_ModuleGeneratorUnchanged == [][gen'[0] = gen[0]]_vars

\* the three calls of the route, in the order of the code
RouteOrder == <<"validate_image_id", "get_image_path", "analyze_image">>

\* the upload directory holds a file the lookup of image_id finds
Stored(image_id) ==
    \E i \in 1..Len(ProbeOrder) : ExistsUnder(image_id, ProbeOrder[i])

\* C14: the /analyze route checks the format, resolves, then analyses:
\* analyze_image runs only for an identifier of at least 8 characters
\* (exactly 8 passes) that get_image_path resolved to an existing file; an
\* empty or shorter identifier is answered 400 without a probe of the
\* store; an identifier that passes the format check and has no stored
\* file is answered 404, without an analysis
C14_FormatCheckResolveAnalyze ==
    \A r \in Requests :
        LET req == requests[r]
        IN /\ IsPrefix(req.steps, RouteOrder)
           /\ calls[r].pc # "idle" =>
                 /\ req.image_id.length >= 8
                 /\ req.path \in Paths
                 /\ files[req.path] # NoFile
                 /\ req.path[1] = req.image_id.id
           /\ (req.pc # "idle" /\ req.image_id.length = 8) => req.response # 400
           /\ (req.pc = "done" /\ req.image_id.length < 8) =>
                 /\ req.response = 400
                 /\ req.steps = <<"validate_image_id">>
                 /\ calls[r].pc = "idle"
           /\ (req.pc = "done" /\ req.image_id.length >= 8
                                /\ ~Stored(req.image_id)) =>
                 /\ req.response = 404
                 /\ calls[r].pc = "idle"

====
